---------------------------- MODULE Spec2Model ----------------------------
(***************************************************************************)
(* Material-balance engines of matbal/mbplot.py as a state machine.        *)
(*                                                                         *)
(* The module holds no state of its own: every function is a transform of  *)
(* its arguments.  A behaviour is a caller invoking one function of the    *)
(* module with arguments drawn from bounded sets; the state records the    *)
(* function called, its arguments, how the call ended (returned / raised), *)
(* the returned tuple and the locals the call had bound when it ended.     *)
(*                                                                         *)
(* Numbers.  Floating-point values are modelled as exact rationals plus    *)
(* the IEEE specials inf, -inf and nan (rounding and overflow are not      *)
(* modelled; every zero is +0).  Series are numpy arrays (the code needs   *)
(* them: p > Pdp, Bg - Bgi are elementwise), so arithmetic on series       *)
(* elements follows numpy: x/0 is inf or nan, never an exception.  Scalar  *)
(* arguments are either plain Python floats ("float": x/0 raises           *)
(* ZeroDivisionError) or numpy scalars such as Rv[0] ("float64": x/0 is    *)
(* inf or nan).  Python indices are 0-based; the model's are 1-based.      *)
(* The matplotlib calls (plt.plot, plt.show, ...) draw and change nothing  *)
(* a function computes or returns; they are not modelled.                  *)
(***************************************************************************)
EXTENDS Integers, Sequences, FiniteSets, TLC

VARIABLES fn, args, result

vars == <<fn, args, result>>

---------------------------------------------------------------------------
(* Bounds of the model *)

\* longest series handed to an engine
MaxN == 2

\* longest series handed to regression, beyond the worked example
MaxRegLen == 3

---------------------------------------------------------------------------
(* Numbers: rationals n/d in lowest terms with d > 0, inf (n = sign), nan *)

Abs(n) == IF n < 0 THEN -n ELSE n

Sign(n) == IF n < 0 THEN -1 ELSE IF n > 0 THEN 1 ELSE 0

RECURSIVE GCD(_, _)
GCD(a, b) == IF b = 0 THEN a ELSE GCD(b, a % b)

Fin(n, d) ==
    LET g == GCD(Abs(n), d)
    IN  [k |-> "fin", n |-> n \div g, d |-> d \div g]

R(n) == [k |-> "fin", n |-> n, d |-> 1]

Inf(s) == [k |-> "inf", n |-> s, d |-> 0]

NaN == [k |-> "nan", n |-> 0, d |-> 0]

\* Python's None, as the value of an optional argument
NoneVal == [k |-> "None", n |-> 0, d |-> 0]

\* the marker of a Python-float division by zero (ZeroDivisionError)
ZeroDiv == [k |-> "ZeroDivisionError", n |-> 0, d |-> 0]

IsFin(a) == a.k = "fin"

IsZero(a) == a.k = "fin" /\ a.n = 0

\* sign of a non-nan value, zero counted as +0
SignOf(a) == IF a.n < 0 THEN -1 ELSE 1

np_neg(a) ==
    CASE a.k = "nan" -> NaN
      [] a.k = "inf" -> Inf(-a.n)
      [] OTHER       -> Fin(-a.n, a.d)

np_add(a, b) ==
    CASE a.k = "nan" \/ b.k = "nan" -> NaN
      [] a.k = "inf" /\ b.k = "inf" -> IF a.n = b.n THEN a ELSE NaN
      [] a.k = "inf"                -> a
      [] b.k = "inf"                -> b
      [] OTHER                      -> Fin(a.n * b.d + b.n * a.d, a.d * b.d)

np_sub(a, b) == np_add(a, np_neg(b))

np_mul(a, b) ==
    CASE a.k = "nan" \/ b.k = "nan" -> NaN
      [] a.k = "inf" \/ b.k = "inf" ->
            IF IsZero(a) \/ IsZero(b) THEN NaN ELSE Inf(SignOf(a) * SignOf(b))
      [] OTHER                      -> Fin(a.n * b.n, a.d * b.d)

\* numpy's true division: x/0 is inf with x's sign, 0/0 is nan, nothing raised
np_div(a, b) ==
    CASE a.k = "nan" \/ b.k = "nan" -> NaN
      [] a.k = "inf" /\ b.k = "inf" -> NaN
      [] a.k = "inf"                -> Inf(a.n * SignOf(b))
      [] b.k = "inf"                -> R(0)
      [] b.n = 0                    -> IF a.n = 0 THEN NaN ELSE Inf(Sign(a.n))
      [] OTHER                      -> Fin(a.n * b.d * Sign(b.n), a.d * Abs(b.n))

\* a division of two scalar arguments: a Python float divided by zero raises
scalar_div(kind, a, b) ==
    IF kind = "float" /\ IsZero(b) THEN ZeroDiv ELSE np_div(a, b)

\* comparisons of finite values (a comparison with nan is False)
Gt(a, b) == IsFin(a) /\ IsFin(b) /\ a.n * b.d > b.n * a.d

Le(a, b) == IsFin(a) /\ IsFin(b) /\ a.n * b.d <= b.n * a.d

---------------------------------------------------------------------------
(* numpy arrays as sequences; elementwise arithmetic *)

vec_sub_s(A, s) == [i \in 1..Len(A) |-> np_sub(A[i], s)]

s_sub_vec(s, A) == [i \in 1..Len(A) |-> np_sub(s, A[i])]

vec_mul_s(A, s) == [i \in 1..Len(A) |-> np_mul(A[i], s)]

vec_add(A, B) == [i \in 1..Len(A) |-> np_add(A[i], B[i])]

vec_sub(A, B) == [i \in 1..Len(A) |-> np_sub(A[i], B[i])]

vec_mul(A, B) == [i \in 1..Len(A) |-> np_mul(A[i], B[i])]

vec_div(A, B) == [i \in 1..Len(A) |-> np_div(A[i], B[i])]

\* np.append(a, b): the elements of a, then the elements of b
np_append(a, b) == a \o b

\* the indices of S among 1..n, in increasing order
RECURSIVE SortedIdx(_, _)
SortedIdx(S, n) ==
    IF n = 0 THEN <<>>
    ELSE IF n \in S THEN Append(SortedIdx(S, n - 1), n)
    ELSE SortedIdx(S, n - 1)

\* np.where(p >= Pdp)[0]: the boundary sample taken as above the dewpoint
np_where_ge(p, Pdp) ==
    SortedIdx({i \in 1..Len(p) : Gt(p[i], Pdp) \/ p[i] = Pdp}, Len(p))

\* np.where(p < Pdp)[0]: the boundary sample dropped from the below subset
np_where_lt(p, Pdp) ==
    SortedIdx({i \in 1..Len(p) : Le(p[i], Pdp) /\ p[i] # Pdp}, Len(p))

\* np.where(p > Pdp)[0]
np_where_gt(p, Pdp) == SortedIdx({i \in 1..Len(p) : Gt(p[i], Pdp)}, Len(p))

\* np.where(p <= Pdp)[0]
np_where_le(p, Pdp) == SortedIdx({i \in 1..Len(p) : Le(p[i], Pdp)}, Len(p))

\* the loop "for i in ids: X_.append(X[i])": the sub-series, in ids' order
gather(X, ids) == [k \in 1..Len(ids) |-> X[ids[k]]]

\* X[i] is defined for every i of ids (else the loop raises IndexError)
index_ok(X, ids) == \A k \in 1..Len(ids) : ids[k] <= Len(X)

---------------------------------------------------------------------------
(* How a call ends *)

Returned(v, loc) == [status |-> "returned", exc |-> "none", val |-> v, locals |-> loc]

Raised(e, loc) == [status |-> "raised", exc |-> e, val |-> <<>>, locals |-> loc]

NoLocals == [none |-> TRUE]

Idle == [status |-> "idle", exc |-> "none", val |-> <<>>, locals |-> NoLocals]

---------------------------------------------------------------------------
(* The leaf functions *)

\* Efw(cf, cw, swi, p, pi), p a series; kind is the type of the scalars
Efw(kind, cf, cw, swi, p, pi) ==
    LET q == scalar_div(kind, np_add(cf, np_mul(cw, swi)), np_sub(R(1), swi))
    IN  IF q = ZeroDiv THEN Raised("ZeroDivisionError", NoLocals)
        ELSE Returned(<<vec_mul_s(s_sub_vec(pi, p), q)>>, NoLocals)

\* condensate_belowdew: the locals Btg, Bto and the returned F, Eg
condensate_belowdew(Rs, Rv, Rsi, Rvi, Bo, Bg, Bgi, Np, Gp) ==
    LET den == s_sub_vec(R(1), vec_mul(Rv, Rs))
        Btg == vec_div(vec_add(vec_mul(Bg, s_sub_vec(R(1), vec_mul_s(Rs, Rvi))),
                               vec_mul(Bo, s_sub_vec(Rvi, Rv))),
                       den)
        Bto == vec_div(vec_add(vec_mul(Bo, s_sub_vec(R(1), vec_mul_s(Rv, Rsi))),
                               vec_mul(Bg, s_sub_vec(Rsi, Rs))),
                       den)
        Gi  == R(0)
        F   == vec_add(vec_mul(Np, vec_div(vec_sub(Bo, vec_mul(Rs, Bg)), den)),
                       vec_mul(vec_sub_s(Gp, Gi),
                               vec_div(vec_sub(Bg, vec_mul(Rv, Bo)), den)))
        Eg  == vec_sub_s(Btg, Bgi)
    IN  [F |-> F, Eg |-> Eg, Btg |-> Btg, Bto |-> Bto]

\* condensate_abovedew: Eg = Bg - Bgi, F = Bg * (Gp - Gpi); returns (F, Eg)
condensate_abovedew(Bg, Bgi, Gp, Gpi) ==
    [F |-> vec_mul(Bg, vec_sub_s(Gp, Gpi)), Eg |-> vec_sub_s(Bg, Bgi)]

---------------------------------------------------------------------------
(* The gas-condensate engine: class condensate *)

\* "if Rsi == None: Rsi = 1 / Rvi; else: Rsi = Rsi"
derive_Rsi(kind, Rsi, Rvi) ==
    IF Rsi = NoneVal THEN scalar_div(kind, R(1), Rvi) ELSE Rsi

\* the segments appended the other way round: below, then above
merge_below_first(above, below) ==
    [F |-> np_append(below.F, above.F), Eg |-> np_append(below.Eg, above.Eg)]

\* "F = np.append(F_above, F_below); Eg = np.append(Eg_above, Eg_below)"
merge_segments(above, below) ==
    [F |-> np_append(above.F, below.F), Eg |-> np_append(above.Eg, below.Eg)]

\* The dewpoint split and the merge, as plot1, plot3 and plot6 each spell it
\* out: where, the above loop, condensate_abovedew, where, Rsi, the below
\* loop, condensate_belowdew, np.append.  exc is the exception the block ends
\* in ("none" when it runs through); the other fields are its locals.
condensate_merge(a) ==
    LET id_above == np_where_gt(a.p, a.Pdp)
        id_below == np_where_le(a.p, a.Pdp)
        Rsi      == derive_Rsi(a.kind, a.Rsi, a.Rvi)
        unbound  == [exc |-> "none", id_above |-> id_above, id_below |-> <<>>,
                     Rsi |-> NoneVal, F |-> <<>>, Eg |-> <<>>, Bto |-> <<>>]
    IN  IF ~(index_ok(a.Bg, id_above) /\ index_ok(a.Gp, id_above))
        THEN [unbound EXCEPT !.exc = "IndexError"]
        ELSE IF Rsi = ZeroDiv
        THEN [unbound EXCEPT !.exc = "ZeroDivisionError", !.id_below = id_below]
        ELSE IF ~(/\ index_ok(a.Rs, id_below) /\ index_ok(a.Rv, id_below)
                  /\ index_ok(a.Bo, id_below) /\ index_ok(a.Bg, id_below)
                  /\ index_ok(a.Np, id_below) /\ index_ok(a.Gp, id_below))
        THEN [unbound EXCEPT !.exc = "IndexError", !.id_below = id_below,
                             !.Rsi = Rsi]
        ELSE
          LET above == condensate_abovedew(gather(a.Bg, id_above), a.Bgi,
                                           gather(a.Gp, id_above), a.Gpi)
              below == condensate_belowdew(gather(a.Rs, id_below),
                                           gather(a.Rv, id_below), Rsi, a.Rvi,
                                           gather(a.Bo, id_below),
                                           gather(a.Bg, id_below), a.Bgi,
                                           gather(a.Np, id_below),
                                           gather(a.Gp, id_below))
              m     == merge_segments(above, below)
          IN  [exc |-> "none", id_above |-> id_above, id_below |-> id_below,
               Rsi |-> Rsi, F |-> m.F, Eg |-> m.Eg, Bto |-> below.Bto]

\* condensate.plot1: returns (F, Eg)
condensate_plot1(a) ==
    LET m == condensate_merge(a)
    IN  IF m.exc # "none" THEN Raised(m.exc, m)
        ELSE Returned(<<m.F, m.Eg>>, m)

\* condensate.plot3: F_Eg = F / Eg; returns (Gp, F_Eg), Gp being the argument
condensate_plot3(a) ==
    LET m == condensate_merge(a)
    IN  IF m.exc # "none" THEN Raised(m.exc, m)
        ELSE Returned(<<a.Gp, vec_div(m.F, m.Eg)>>, m)

\* condensate.plot6: "Efw = Efw(cf, cw, swi, p, pi)" makes Efw a local of the
\* method, read before it is bound: UnboundLocalError, whatever the arguments
condensate_plot6(a) ==
    LET m == condensate_merge(a)
    IN  IF m.exc # "none" THEN Raised(m.exc, m)
        ELSE Raised("UnboundLocalError", m)

---------------------------------------------------------------------------
(* The dry-gas engine: class drygas *)

\* drygas.plot1: binds Eg and F, plots, and ends without a return statement
drygas_plot1(Bg, Bgi, Gp, Gpi) ==
    Returned(<<>>, [Eg |-> vec_sub_s(Bg, Bgi),
                    F  |-> vec_mul(Bg, vec_sub_s(Gp, Gpi))])

---------------------------------------------------------------------------
(* The undersaturated-oil engine: calculate_undersaturated *)

\* a local name that no statement has bound yet
Unbound == [k |-> "unbound", n |-> 0, d |-> 0]

\* "(Np * ((Bo_ - (Rs * Bg)) / (1 - (Rv * Rs)))) + (Gp * ((Bg - (Rv * Bo_)) /
\* (1 - (Rv * Rs))))" over the whole arrays, Bo_ a scalar (mode 'total')
volatile_F_total(a, Bo_) ==
    LET den == s_sub_vec(R(1), vec_mul(a.Rv, a.Rs))
    IN  vec_add(vec_mul(a.Np, vec_div(s_sub_vec(Bo_, vec_mul(a.Rs, a.Bg)), den)),
                vec_mul(a.Gp, vec_div(vec_sub(a.Bg, vec_mul_s(a.Rv, Bo_)), den)))

\* the same expression with the array Bo (default mode)
volatile_F(a) ==
    LET den == s_sub_vec(R(1), vec_mul(a.Rv, a.Rs))
    IN  vec_add(vec_mul(a.Np, vec_div(vec_sub(a.Bo, vec_mul(a.Rs, a.Bg)), den)),
                vec_mul(a.Gp, vec_div(vec_sub(a.Bg, vec_mul(a.Rv, a.Bo)), den)))

\* the elements the non-volatile branch reads before it calls Np[i]:
\* Bo[i], Bg[i], Rs[i], Np[i] (mode 'total' reads no Rs[i])
nonvolatile_index_ok(a, i) ==
    /\ i <= Len(a.Bo) /\ i <= Len(a.Bg) /\ i <= Len(a.Np)
    /\ (a.oilfvf = "total" \/ i <= Len(a.Rs))

\* the elements the volatile branch reads: Bo[i], Bg[i], Rs[i] (Rv[i] is read)
volatile_index_ok(a, i) == i <= Len(a.Bo) /\ i <= Len(a.Bg) /\ i <= Len(a.Rs)

\* the arrays of the whole-array expression have one shape
same_shape(a) ==
    /\ Len(a.Np) = Len(a.Bo) /\ Len(a.Bo) = Len(a.Rs) /\ Len(a.Rs) = Len(a.Bg)
    /\ Len(a.Bg) = Len(a.Rv) /\ Len(a.Rv) = Len(a.Gp)

\* Bto_ of the volatile branch: mode 'total' keeps Bo[i], the default mode
\* converts it
volatile_Bto(a, Rsi, i) ==
    IF a.oilfvf = "total" THEN a.Bo[i]
    ELSE np_div(np_add(np_mul(a.Bo[i], np_sub(R(1), np_mul(a.Rv[i], Rsi))),
                       np_mul(a.Bg[i], np_sub(Rsi, a.Rs[i]))),
                np_sub(R(1), np_mul(a.Rv[i], a.Rs[i])))

\* Bo_ of mode 'total', volatile branch
volatile_Bo(a, Rsi, i) ==
    LET den == np_sub(R(1), np_mul(a.Rv[i], a.Rs[i]))
    IN  np_div(np_sub(np_mul(a.Bo[i], den), np_mul(a.Bg[i], np_sub(Rsi, a.Rs[i]))),
               den)

\* One pass of the loop body, the same statements in both modes:
\*   if Rv[i] == 0: Bto_ = ...; F_ = Np[i](...)     <- calls the number Np[i]
\*   Bto.append(Bto_); F.append(F_)
\*   if Rv[i] != 0: Bto_ = ...; F_ = <whole-array expression>
\*   Bto.append(Bto_); F.append(F_)
\* st holds the lists Bto, F and the locals Bto_, F_.
undersaturated_pass(a, Rsi, st, i) ==
    IF i > Len(a.Rv) THEN [st EXCEPT !.exc = "IndexError"]
    ELSE IF IsZero(a.Rv[i])
    THEN IF nonvolatile_index_ok(a, i) THEN [st EXCEPT !.exc = "TypeError"]
         ELSE [st EXCEPT !.exc = "IndexError"]
    ELSE IF st.Bto_ = Unbound THEN [st EXCEPT !.exc = "UnboundLocalError"]
    ELSE
      LET st1 == [st EXCEPT !.Bto = Append(st.Bto, st.Bto_),
                            !.F = Append(st.F, st.F_)]
      IN  IF ~volatile_index_ok(a, i) THEN [st1 EXCEPT !.exc = "IndexError"]
          ELSE IF ~same_shape(a) THEN [st1 EXCEPT !.exc = "ValueError"]
          ELSE
            LET Bto_ == volatile_Bto(a, Rsi, i)
                F_   == IF a.oilfvf = "total"
                        THEN volatile_F_total(a, volatile_Bo(a, Rsi, i))
                        ELSE volatile_F(a)
            IN  [st1 EXCEPT !.Bto = Append(st1.Bto, Bto_),
                            !.F = Append(st1.F, F_),
                            !.Bto_ = Bto_, !.F_ = F_]

\* "for i in range(len(p)):" from index i on
RECURSIVE undersaturated_loop(_, _, _, _)
undersaturated_loop(a, Rsi, st, i) ==
    IF i > Len(a.p) \/ st.exc # "none" THEN st
    ELSE undersaturated_loop(a, Rsi, undersaturated_pass(a, Rsi, st, i), i + 1)

\* calculate_undersaturated(p, Bg, Bo, Np, Gp, cf, cw, swi, Rs, Rv, oilfvf):
\* returns (Bto, Eo, Efw, F)
calculate_undersaturated(a) ==
    LET st0 == [exc |-> "none", Bto |-> <<>>, F |-> <<>>,
                Bto_ |-> Unbound, F_ |-> Unbound]
    IN  IF Len(a.p) = 0 \/ Len(a.Bo) = 0 \/ Len(a.Rs) = 0
        THEN Raised("IndexError", st0)
        ELSE
          LET pi  == a.p[1]
              Boi == a.Bo[1]
              Rsi == a.Rs[1]
              st  == undersaturated_loop(a, Rsi, st0, 1)
              q   == scalar_div(a.kind, np_add(a.cf, np_mul(a.cw, a.swi)),
                                np_sub(R(1), a.swi))
          IN  IF st.exc # "none" THEN Raised(st.exc, st)
              ELSE IF q = ZeroDiv THEN Raised("ZeroDivisionError", st)
              ELSE Returned(<<st.Bto, vec_sub_s(st.Bto, Boi),
                              vec_mul_s(s_sub_vec(pi, a.p), q), st.F>>, st)

---------------------------------------------------------------------------
(* The regression utility *)

RECURSIVE np_sum(_)
np_sum(A) == IF Len(A) = 0 THEN R(0) ELSE np_add(np_sum(SubSeq(A, 1, Len(A) - 1)), A[Len(A)])

\* np.mean: the sum over the count (nan for an empty array)
np_mean(A) == np_div(np_sum(A), R(Len(A)))

\* the locals of regression(x, y) up to "slope = numerator / denominator"
regression_locals(x, y) ==
    LET mean_x == np_mean(x)
        mean_y == np_mean(y)
        err_x  == vec_sub_s(x, mean_x)
        err_y  == vec_sub_s(y, mean_y)
        numerator   == np_sum(vec_mul(err_x, err_y))
        denominator == np_sum(vec_mul(err_x, err_x))
    IN  [mean_x |-> mean_x, mean_y |-> mean_y, numerator |-> numerator,
         denominator |-> denominator, slope |-> np_div(numerator, denominator)]

\* regression(x, y): "intercept = mean_y - B1 * mean_x" reads B1, a name no
\* scope binds: NameError; "return (intercept, slope)" is never reached
regression(x, y) == Raised("NameError", regression_locals(x, y))

---------------------------------------------------------------------------
(* The arguments a caller passes *)

\* the series of length n over the values S
Series(S, n) == [1..n -> S]

\* the type of the scalar arguments: Python float or numpy float64
Kinds == {"float", "float64"}

PdpVals == {R(2)}

\* pressures above, at and below the dewpoint pressure
PVals == {R(1), R(2), R(3)}

BgVals == {R(1), R(2)}

BoVals == {R(3)}

\* Rv * Rs = 1 for Rv = 2, Rs = 1/2
RvVals == {R(0), R(2)}

RsVals == {Fin(1, 2)}

BgiVals == {Fin(1, 2)}

GpiVals == {R(0)}

RviVals == {R(0), R(2)}

RsiVals == {NoneVal, Fin(1, 2)}

SwiVals == {R(0), Fin(1, 4), R(1)}

\* cumulative productions: increasing with the sample
NpSeries(n) == [i \in 1..n |-> R(i)]

GpSeries(n) == [i \in 1..n |-> R(3 + i)]

\* the arguments of the gas-condensate methods: series of length n, but Bg of
\* length nBg and Rs of length nRs
CondensateArgsOfLen(n, nBg, nRs) ==
    [kind : Kinds, Pdp : PdpVals, p : Series(PVals, n), Bg : Series(BgVals, nBg),
     Bgi : BgiVals, Bo : Series(BoVals, n), Np : {NpSeries(n)},
     Gp : {GpSeries(n)}, Gpi : GpiVals, Rv : Series(RvVals, n),
     Rvi : RviVals, Rs : Series(RsVals, nRs), Rsi : RsiVals]

\* series of one length
CondensateArgs == UNION {CondensateArgsOfLen(n, n, n) : n \in 0..MaxN}

\* series of unequal lengths: Bg one sample longer than the others, or Rs one
\* sample shorter
CondensateRaggedArgs ==
    UNION {CondensateArgsOfLen(n - 1, n, n - 1) \cup CondensateArgsOfLen(n, n, n - 1)
           : n \in 1..MaxN}

\* condensate.plot6 takes pi, cf, cw, swi as well
Plot6Args ==
    {[x \in DOMAIN a \cup {"pi", "cf", "cw", "swi"} |->
        CASE x = "pi"  -> R(3)
          [] x = "cf"  -> R(3)
          [] x = "cw"  -> R(4)
          [] x = "swi" -> Fin(1, 4)
          [] OTHER     -> a[x]] : a \in CondensateArgs}

AbovedewArgs ==
    UNION {[Bg : Series(BgVals, n), Bgi : BgiVals \cup {R(1)},
            Gp : Series({R(4), R(7)}, n), Gpi : GpiVals \cup {R(1)}] : n \in 0..MaxN}

BelowdewArgs ==
    UNION {[Rs : Series(RsVals, n), Rv : Series(RvVals, n), Rsi : {Fin(1, 2), R(1)},
            Rvi : RviVals, Bo : Series(BoVals, n), Bg : Series(BgVals, n),
            Bgi : BgiVals, Np : {NpSeries(n)}, Gp : {GpSeries(n)}]
           : n \in 0..MaxN}

EfwArgs ==
    UNION {[kind : Kinds, cf : {R(3)}, cw : {R(4)}, swi : SwiVals,
            p : Series(PVals, n), pi : {R(3)}] : n \in 0..MaxN}

\* the arguments of calculate_undersaturated: series of length n, but Bg of
\* length nBg and Rs of length nRs
UndersaturatedArgsOfLen(n, nBg, nRs) ==
    [kind : Kinds, p : Series(PVals, n), Bg : Series({R(1)}, nBg),
     Bo : Series(BoVals, n), Np : {NpSeries(n)}, Gp : {GpSeries(n)},
     cf : {R(3)}, cw : {R(4)}, swi : SwiVals, Rs : Series(RsVals, nRs),
     Rv : Series(RvVals, n), oilfvf : {"None", "total"}]

UndersaturatedArgs ==
    (UNION {UndersaturatedArgsOfLen(n, n, n) : n \in 0..MaxN}) \cup
    (UNION {UndersaturatedArgsOfLen(n - 1, n, n - 1) \cup
            UndersaturatedArgsOfLen(n, n, n - 1) : n \in 1..MaxN})

XVals == {R(0), R(1), R(5)}

YVals == {R(3), R(5)}

\* y = 2x + 3 over x = [0, 1, 2, 3, 4]
LinearExample ==
    [x |-> <<R(0), R(1), R(2), R(3), R(4)>>,
     y |-> <<R(3), R(5), R(7), R(9), R(11)>>]

\* paired series of one length
RegressionArgs ==
    {LinearExample} \cup
    UNION {[x : Series(XVals, n), y : Series(YVals, n)] : n \in 0..MaxRegLen}

---------------------------------------------------------------------------
(* The state machine *)

Init ==
    /\ fn = "none"
    /\ args = NoLocals
    /\ result = Idle

Call_condensate_plot1 ==
    /\ fn = "none"
    /\ \E a \in CondensateArgs \cup CondensateRaggedArgs :
          /\ fn' = "condensate.plot1"
          /\ args' = a
          /\ result' = condensate_plot1(a)

Call_condensate_plot3 ==
    /\ fn = "none"
    /\ \E a \in CondensateArgs :
          /\ fn' = "condensate.plot3"
          /\ args' = a
          /\ result' = condensate_plot3(a)

Call_condensate_plot6 ==
    /\ fn = "none"
    /\ \E a \in Plot6Args :
          /\ fn' = "condensate.plot6"
          /\ args' = a
          /\ result' = condensate_plot6(a)

Call_condensate_abovedew ==
    /\ fn = "none"
    /\ \E a \in AbovedewArgs :
          /\ fn' = "condensate_abovedew"
          /\ args' = a
          /\ result' = LET r == condensate_abovedew(a.Bg, a.Bgi, a.Gp, a.Gpi)
                       IN  Returned(<<r.F, r.Eg>>, NoLocals)

Call_condensate_belowdew ==
    /\ fn = "none"
    /\ \E a \in BelowdewArgs :
          /\ fn' = "condensate_belowdew"
          /\ args' = a
          /\ result' = LET r == condensate_belowdew(a.Rs, a.Rv, a.Rsi, a.Rvi, a.Bo,
                                                    a.Bg, a.Bgi, a.Np, a.Gp)
                       IN  Returned(<<r.F, r.Eg>>, [Btg |-> r.Btg, Bto |-> r.Bto])

Call_drygas_plot1 ==
    /\ fn = "none"
    /\ \E a \in AbovedewArgs :
          /\ fn' = "drygas.plot1"
          /\ args' = a
          /\ result' = drygas_plot1(a.Bg, a.Bgi, a.Gp, a.Gpi)

Call_Efw ==
    /\ fn = "none"
    /\ \E a \in EfwArgs :
          /\ fn' = "Efw"
          /\ args' = a
          /\ result' = Efw(a.kind, a.cf, a.cw, a.swi, a.p, a.pi)

Call_calculate_undersaturated ==
    /\ fn = "none"
    /\ \E a \in UndersaturatedArgs :
          /\ fn' = "calculate_undersaturated"
          /\ args' = a
          /\ result' = calculate_undersaturated(a)

Call_regression ==
    /\ fn = "none"
    /\ \E a \in RegressionArgs :
          /\ fn' = "regression"
          /\ args' = a
          /\ result' = regression(a.x, a.y)

\* the call is over; nothing of it is kept (the module has no state)
Return ==
    /\ fn # "none"
    /\ fn' = "none"
    /\ args' = NoLocals
    /\ result' = Idle

Next ==
    \/ Call_condensate_plot1
    \/ Call_condensate_plot3
    \/ Call_condensate_plot6
    \/ Call_condensate_abovedew
    \/ Call_condensate_belowdew
    \/ Call_drygas_plot1
    \/ Call_Efw
    \/ Call_calculate_undersaturated
    \/ Call_regression
    \/ Return

Spec == Init /\ [][Next]_vars

---------------------------------------------------------------------------
(* Properties of the gas-condensate engine *)

\* condensate.plot1 has returned (F, Eg)
Plot1Returned == fn = "condensate.plot1" /\ result.status = "returned"

\* the elements of a sequence
Range(q) == {q[k] : k \in 1..Len(q)}

\* sample i lies above the dewpoint
IsAbove(i) == Gt(args.p[i], args.Pdp)

\* what condensate_abovedew yields for the one sample i
AboveOf(i) ==
    [F  |-> np_mul(args.Bg[i], np_sub(args.Gp[i], args.Gpi)),
     Eg |-> np_sub(args.Bg[i], args.Bgi)]

\* what condensate_belowdew yields for the one sample i
BelowOf(i) ==
    LET r == condensate_belowdew(<<args.Rs[i]>>, <<args.Rv[i]>>, result.locals.Rsi,
                                 args.Rvi, <<args.Bo[i]>>, <<args.Bg[i]>>, args.Bgi,
                                 <<args.Np[i]>>, <<args.Gp[i]>>)
    IN  [F |-> r.F[1], Eg |-> r.Eg[1]]

\* C1: whenever condensate.plot1 returns (F, Eg), len(F) = len(Eg) = N, the
\* length of the pressure series, whatever the sizes of the two partitions.
C1_MergedLength ==
    Plot1Returned =>
        /\ Len(result.val[1]) = Len(args.p)
        /\ Len(result.val[2]) = Len(args.p)

\* C1 witness: a returned call of two or more samples, all above the dewpoint
C1_Witness ==
    /\ Plot1Returned
    /\ Len(args.p) >= 2
    /\ \A i \in 1..Len(args.p) : IsAbove(i)
    /\ Len(result.val[1]) = Len(args.p)

\* C2: in a returned call every sample index is in exactly one of id_above and
\* id_below, once; it is in id_above iff p[i] > Pdp and in id_below iff
\* p[i] <= Pdp; and a sample with p[i] = Pdp holds, at its place of the below
\* segment, the values of condensate_belowdew.
C2_Partition ==
    Plot1Returned =>
        LET ia == result.locals.id_above
            ib == result.locals.id_below
        IN  \A i \in 1..Len(args.p) :
              /\ (i \in Range(ia)) # (i \in Range(ib))
              /\ Cardinality({k \in 1..Len(ia) : ia[k] = i}) <= 1
              /\ Cardinality({k \in 1..Len(ib) : ib[k] = i}) <= 1
              /\ (i \in Range(ia)) <=> IsAbove(i)
              /\ (i \in Range(ib)) <=> Le(args.p[i], args.Pdp)
              /\ args.p[i] = args.Pdp =>
                    \E k \in 1..Len(ib) :
                       /\ ib[k] = i
                       /\ result.val[1][Len(ia) + k] = BelowOf(i).F
                       /\ result.val[2][Len(ia) + k] = BelowOf(i).Eg

\* C2 witness: a returned call with a sample exactly at the dewpoint pressure
C2_Witness ==
    /\ Plot1Returned
    /\ \E i \in 1..Len(args.p) :
          /\ args.p[i] = args.Pdp
          /\ i \in Range(result.locals.id_below)
          /\ i \notin Range(result.locals.id_above)

\* the number of samples among 1..i that are above (below) the dewpoint
RankAbove(i) == Cardinality({j \in 1..i : IsAbove(j)})

RankBelow(i) == Cardinality({j \in 1..i : ~IsAbove(j)})

\* the place sample i has in "above segment, then below segment"
PlaceOf(i) ==
    IF IsAbove(i) THEN RankAbove(i) ELSE RankAbove(Len(args.p)) + RankBelow(i)

\* C3: the returned F and Eg hold the values of the samples above the
\* dewpoint first, in increasing sample order, then the values of the
\* samples at or below it, in increasing sample order.
C3_AboveThenBelow ==
    Plot1Returned =>
        /\ Len(result.val[1]) = Len(args.p)
        /\ Len(result.val[2]) = Len(args.p)
        /\ \A i \in 1..Len(args.p) :
              LET v == IF IsAbove(i) THEN AboveOf(i) ELSE BelowOf(i)
              IN  /\ result.val[1][PlaceOf(i)] = v.F
                  /\ result.val[2][PlaceOf(i)] = v.Eg

\* C3 witness: a returned call in which a sample below the dewpoint precedes
\* one above it, so that the merged order is not the sample order
C3_Witness ==
    /\ Plot1Returned
    /\ \E i, j \in 1..Len(args.p) :
          /\ i < j /\ ~IsAbove(i) /\ IsAbove(j)
          /\ PlaceOf(j) < PlaceOf(i)
          /\ result.val[1][PlaceOf(j)] = AboveOf(j).F
          /\ result.val[1][PlaceOf(j)] # result.val[1][PlaceOf(i)]

\* what the two segments would hold for sample i, whichever side it is on
SampleOf(i) == IF IsAbove(i) THEN AboveOf(i) ELSE BelowOf(i)

\* the water/formation expansion of the one sample i
EfwOf(i) ==
    np_mul(np_div(np_add(args.cf, np_mul(args.cw, args.swi)),
                  np_sub(R(1), args.swi)),
           np_sub(args.pi, args.p[i]))

\* C4: the arrays condensate.plot3 and condensate.plot6 return are aligned with
\* the caller's series: F_Eg[k] is F/Eg of sample k, the sample of Gp[k], and
\* Eg_Bgi_Efw[k] is Eg of sample k plus Bgi times Efw of sample k, paired
\* with F of sample k.
C4_IndexAligned ==
    /\ (fn = "condensate.plot3" /\ result.status = "returned") =>
          /\ result.val[1] = args.Gp
          /\ \A k \in 1..Len(args.p) :
                result.val[2][k] = np_div(SampleOf(k).F, SampleOf(k).Eg)
    /\ (fn = "condensate.plot6" /\ result.status = "returned") =>
          \A k \in 1..Len(args.p) :
             /\ result.val[1][k] =
                   np_add(SampleOf(k).Eg, np_mul(args.Bgi, EfwOf(k)))
             /\ result.val[2][k] = SampleOf(k).F

---------------------------------------------------------------------------
(* Properties of the closed forms, the undersaturated engine, regression *)

\* C5: condensate_abovedew and drygas.plot1 both return (F, Eg) with
\* Eg[i] = Bg[i] - Bgi and F[i] = Bg[i] * (Gp[i] - Gpi) for every sample i.
C5_ClosedForm ==
    (fn \in {"condensate_abovedew", "drygas.plot1"} /\ Len(args.Bg) >= 1) =>
        /\ result.status = "returned"
        /\ Len(result.val) = 2
        /\ Len(result.val[1]) = Len(args.Bg)
        /\ Len(result.val[2]) = Len(args.Bg)
        /\ \A i \in 1..Len(args.Bg) :
              /\ result.val[2][i] = np_sub(args.Bg[i], args.Bgi)
              /\ result.val[1][i] =
                    np_mul(args.Bg[i], np_sub(args.Gp[i], args.Gpi))

\* series of one length N >= 1 and swi # 1: arguments the engine accepts
UndersaturatedValid ==
    /\ Len(args.p) >= 1
    /\ \A X \in {args.Bg, args.Bo, args.Np, args.Gp, args.Rs, args.Rv} :
          Len(X) = Len(args.p)
    /\ args.swi # R(1)

\* C6: in the default mode calculate_undersaturated returns Bto and F of
\* length N; with Rsi = Rs[0], a sample with Rv[i] = 0 holds
\* Bto[i] = Bo[i] + Bg[i]*(Rsi - Rs[i]) and
\* F[i] = Np[i]*(Bo[i] - Rs[i]*Bg[i]) + Gp[i]*Bg[i], a sample with Rv[i] # 0
\* holds the volatile Bto[i] and the scalar volatile voidage of sample i.
C6_Undersaturated ==
    (fn = "calculate_undersaturated" /\ args.oilfvf = "None"
        /\ UndersaturatedValid) =>
        /\ result.status = "returned"
        /\ Len(result.val[1]) = Len(args.p)
        /\ Len(result.val[4]) = Len(args.p)
        /\ \A i \in 1..Len(args.p) :
              LET Rsi == args.Rs[1]
                  den == np_sub(R(1), np_mul(args.Rv[i], args.Rs[i]))
              IN  IF IsZero(args.Rv[i])
                  THEN /\ result.val[1][i] =
                             np_add(args.Bo[i],
                                    np_mul(args.Bg[i], np_sub(Rsi, args.Rs[i])))
                       /\ result.val[4][i] =
                             np_add(np_mul(args.Np[i],
                                           np_sub(args.Bo[i],
                                                  np_mul(args.Rs[i], args.Bg[i]))),
                                    np_mul(args.Gp[i], args.Bg[i]))
                  ELSE /\ result.val[1][i] =
                             np_div(np_add(np_mul(args.Bo[i],
                                                  np_sub(R(1), np_mul(args.Rv[i], Rsi))),
                                           np_mul(args.Bg[i], np_sub(Rsi, args.Rs[i]))),
                                    den)
                       /\ result.val[4][i] =
                             np_add(np_mul(args.Np[i],
                                           np_div(np_sub(args.Bo[i],
                                                         np_mul(args.Rs[i], args.Bg[i])),
                                                  den)),
                                    np_mul(args.Gp[i],
                                           np_div(np_sub(args.Bg[i],
                                                         np_mul(args.Rv[i], args.Bo[i])),
                                                  den)))

\* C7: for paired series of length >= 2 with two distinct x values,
\* regression returns (intercept, slope) with
\* slope = sum((x-mean_x)*(y-mean_y)) / sum((x-mean_x)^2) and
\* intercept = mean_y - slope*mean_x; for y = 2x+3 over x = [0,1,2,3,4] it
\* returns slope 2 and intercept 3.
C7_Regression ==
    (fn = "regression" /\ Len(args.x) >= 2 /\ Cardinality(Range(args.x)) >= 2) =>
        LET l == regression_locals(args.x, args.y)
        IN  /\ result.status = "returned"
            /\ result.val[2] = l.slope
            /\ result.val[1] = np_sub(l.mean_y, np_mul(l.slope, l.mean_x))
            /\ args = LinearExample => result.val[2] = R(2) /\ result.val[1] = R(3)

---------------------------------------------------------------------------
(* Properties of the error handling *)

\* The module defines no exception class of its own.  The failure it can end
\* in where the arithmetic is undefined is Python's ZeroDivisionError, taken
\* here as the DomainError of the error taxonomy.
DomainErrors == {"ZeroDivisionError"}

EndsInDomainError == result.status = "raised" /\ result.exc \in DomainErrors

\* C8: Efw called with swi = 1 ends in a DomainError, and regression called
\* with all x values identical ends in a DomainError; neither returns.
C8_DomainErrors ==
    /\ (fn = "Efw" /\ args.swi = R(1) /\ Len(args.p) >= 1) => EndsInDomainError
    /\ (fn = "regression" /\ Len(args.x) >= 1 /\ Cardinality(Range(args.x)) = 1)
          => EndsInDomainError

\* the series of a gas-condensate call have one length
CondensateShapeOK ==
    \A X \in {args.Bg, args.Bo, args.Np, args.Gp, args.Rs, args.Rv} :
       Len(X) = Len(args.p)

\* C9: in condensate.plot1, with Rsi not supplied the below-dewpoint
\* computation gets Rsi = 1/Rvi, a supplied Rsi is used unchanged, and with
\* Rsi not supplied and Rvi = 0 the call ends in a DomainError whatever the
\* partition is.
C9_Rsi ==
    (fn = "condensate.plot1" /\ CondensateShapeOK /\ Len(args.p) >= 1) =>
        /\ (args.Rsi = NoneVal /\ ~IsZero(args.Rvi)) =>
              /\ result.status = "returned"
              /\ result.locals.Rsi = np_div(R(1), args.Rvi)
        /\ args.Rsi # NoneVal =>
              /\ result.status = "returned"
              /\ result.locals.Rsi = args.Rsi
        /\ (args.Rsi = NoneVal /\ IsZero(args.Rvi)) => EndsInDomainError

\* sample i has Rv[i] * Rs[i] = 1
Offending(i) == np_mul(args.Rv[i], args.Rs[i]) = R(1)

\* C10: a call in which a sample routed to a formula dividing by
\* (1 - Rv[i]*Rs[i]) has Rv[i]*Rs[i] = 1 does not return a result.
C10_NoPartialResult ==
    /\ (fn = "condensate_belowdew" /\ \E i \in 1..Len(args.Rv) : Offending(i))
          => result.status # "returned"
    /\ (fn = "condensate.plot1" /\ CondensateShapeOK
          /\ \E i \in 1..Len(args.p) : ~IsAbove(i) /\ Offending(i))
          => result.status # "returned"
    /\ (fn = "calculate_undersaturated" /\ UndersaturatedValid
          /\ \E i \in 1..Len(args.p) : ~IsZero(args.Rv[i]) /\ Offending(i))
          => result.status # "returned"

\* the series of the call do not all have the length of p, or are empty
BadShape ==
    \/ Len(args.p) = 0
    \/ \E X \in {args.Bg, args.Bo, args.Np, args.Gp, args.Rs, args.Rv} :
          Len(X) # Len(args.p)

\* C11: a call of condensate.plot1 or calculate_undersaturated whose series
\* do not all have one length N, or are empty, returns no result: a series
\* longer than p is not truncated, an empty input yields no empty arrays.
C11_ShapeError ==
    (fn \in {"condensate.plot1", "calculate_undersaturated"} /\ BadShape) =>
        result.status # "returned"

=============================================================================
